---- MODULE Spec2Model ----
(***************************************************************************)
(* create_package of package_generator.py as a state machine.              *)
(*                                                                         *)
(* The state is the filesystem (the scratch area /tmp/pipewire-go-package, *)
(* the staging root below it and the output paths), and for every caller   *)
(* the position of its create_package call.  Every statement of the        *)
(* function that touches the filesystem or standard output is one action;  *)
(* each may end with an exception, which propagates (the function has no   *)
(* handler).  Paths are tuples of components, as pathlib's Path.parts.     *)
(***************************************************************************)
EXTENDS Integers, Sequences, FiniteSets, TLC

\* Number of create_package calls made in one behaviour.
MaxRuns == 2

\* Number of times the scheduler takes the processor from a caller that is
\* inside a call (concurrent callers only).
MaxPreemptions == 1

\* The callers of create_package.
Procs == {"a", "b"}

-----------------------------------------------------------------------------
(* Paths and the manifest                                                  *)

base_dir == <<"/", "tmp", "pipewire-go-package">>

project_dir == base_dir \o <<"pipewire-go">>

\* arcname="pipewire-go" of tar.add
arcname == <<"pipewire-go">>

\* The working directory relative output names are resolved against: some
\* directory outside the scratch area.
Cwd == <<"/", "work">>

\* The default of the output_name parameter (a relative path).
DefaultOutput == <<"pipewire-go-0.1.0-dev.tar.gz">>

\* The values of output_name the callers pass: the default, a path under the
\* staging root, and a path under the staging root that is also a manifest key.
OutputNames ==
    { DefaultOutput,
      project_dir \o <<"out.tar.gz">>,
      project_dir \o <<"go.mod">> }

\* os.path.abspath
AbsPath(p) == IF p[1] = "/" THEN p ELSE Cwd \o p

\* The `files` dictionary, in insertion order; the literal contents are
\* abbreviated to their first line.
files ==
    << [path |-> <<"go.mod">>,     content |-> "module github.com/vignemail1/pipewire-go"],
       [path |-> <<".gitignore">>, content |-> "# Binaries"],
       [path |-> <<"LICENSE">>,    content |-> "MIT License"],
       [path |-> <<"Makefile">>,   content |-> ".PHONY: help build test clean coverage fmt lint all"] >>

\* The `dirs` list with its last entry forgotten.
dirs_without_pw_gui ==
    << <<"spa">>, <<"core">>, <<"client">>, <<"verbose">>, <<"examples">>,
       <<"cmd", "pw-tui">> >>

\* The `dirs` list.
dirs ==
    << <<"spa">>, <<"core">>, <<"client">>, <<"verbose">>, <<"examples">>,
       <<"cmd", "pw-tui">>, <<"cmd", "pw-gui">> >>

Parent(p) == SubSeq(p, 1, Len(p) - 1)

IsPrefix(a, b) == Len(a) <= Len(b) /\ SubSeq(b, 1, Len(a)) = a

\* The paths of the model: the scratch area, the staging root, what the
\* manifest places there, what an earlier run or a user may have left there,
\* and the output paths.  Every other path (/, /tmp, the working directory)
\* is a directory that exists throughout.
Paths ==
    { base_dir, project_dir, base_dir \o <<"stray.txt">> }
    \cup { project_dir \o r : r \in
            { <<"go.mod">>, <<".gitignore">>, <<"LICENSE">>, <<"Makefile">>,
              <<"spa">>, <<"core">>, <<"client">>, <<"verbose">>, <<"examples">>,
              <<"cmd">>, <<"cmd", "pw-tui">>, <<"cmd", "pw-gui">>,
              <<"stray.txt">>, <<"old">>, <<"old", "stray.txt">>,
              <<"out.tar.gz">> } }
    \cup { AbsPath(o) : o \in OutputNames }

\* The last components of Paths in the order of Python's sorted().
SortedNames ==
    << ".gitignore", "LICENSE", "Makefile", "client", "cmd", "core", "examples",
       "go.mod", "old", "out.tar.gz", "pipewire-go", "pipewire-go-0.1.0-dev.tar.gz",
       "pipewire-go-package", "pw-gui", "pw-tui", "spa", "stray.txt", "verbose" >>

-----------------------------------------------------------------------------
(* The filesystem                                                          *)

Absent == [kind |-> "absent"]

Dir == [kind |-> "dir"]

File(d) == [kind |-> "file", data |-> d]

\* The bytes of a text file.
Text(v) == [t |-> "text", v |-> v]

\* What a file left by something other than this program holds.
Stale == Text("stale")

\* What a write that failed half way leaves.
Truncated == Text("")

\* Two writers on one open file.
Garbled == [t |-> "garbled"]

NoData == [t |-> "none"]

Node(f, p) == IF p \in Paths THEN f[p] ELSE Dir

Exists(f, p) == Node(f, p).kind # "absent"

Under(p) == {q \in Paths : IsPrefix(p, q)}

\* pathlib.Path.mkdir(parents=..., exist_ok=...): os.mkdir, and on
\* FileNotFoundError the parents first; any other OSError is raised unless
\* exist_ok and the path is a directory.
RECURSIVE Mkdir(_, _, _, _)
Mkdir(f, p, parents, exist_ok) ==
    IF Exists(f, p)
    THEN [ok |-> exist_ok /\ Node(f, p).kind = "dir", fs |-> f]
    ELSE IF Node(f, Parent(p)).kind = "dir"
    THEN [ok |-> TRUE, fs |-> [f EXCEPT ![p] = Dir]]
    ELSE IF Node(f, Parent(p)).kind = "absent"
    THEN IF ~parents
         THEN [ok |-> FALSE, fs |-> f]
         ELSE LET r == Mkdir(f, Parent(p), TRUE, TRUE)
              IN  IF r.ok THEN Mkdir(r.fs, p, FALSE, exist_ok) ELSE r
    ELSE [ok |-> FALSE, fs |-> f]

\* Path.write_text: open(path, "w") and write the whole text.
WriteText(f, p, content) ==
    IF Node(f, Parent(p)).kind = "dir" /\ Node(f, p).kind # "dir"
    THEN [ok |-> TRUE, fs |-> [f EXCEPT ![p] = File(Text(content))]]
    ELSE [ok |-> FALSE, fs |-> f]

\* A wipe that misses one leftover file of the staging root.
RmTreeKeepsStray(f) ==
    [q \in Paths |->
        IF IsPrefix(base_dir, q) /\ q # project_dir \o <<"stray.txt">>
        THEN Absent ELSE f[q]]

\* shutil.rmtree(base_dir) run to its end.
RmTree(f) == [q \in Paths |-> IF IsPrefix(base_dir, q) THEN Absent ELSE f[q]]

\* shutil.rmtree stopped by an error after it removed the subtree at s.
RmTreePartial(f, s) == [q \in Paths |-> IF IsPrefix(s, q) THEN Absent ELSE f[q]]

-----------------------------------------------------------------------------
(* The archive                                                             *)

\* The file tarfile.open(output_name, "w:gz") creates: the gzip header with
\* its timestamp, then the members as they are added, then (closed) the end
\* of the archive.  `run` tells the open files of different runs apart.
Archive(r, t) == [t |-> "tgz", run |-> r, mtime |-> t, entries |-> <<>>, closed |-> FALSE]

IsArchive(n) == n.kind = "file" /\ n.data.t = "tgz"

\* An open that keeps the members of an archive already at the path (mode
\* "a" for "w").
TarOpenAppends(f, out, r, t) ==
    IF Node(f, Parent(AbsPath(out))).kind = "dir" /\ Node(f, AbsPath(out)).kind # "dir"
    THEN [ok |-> TRUE,
          fs |-> [f EXCEPT ![AbsPath(out)] =
                    IF IsArchive(@)
                    THEN File([Archive(r, t) EXCEPT !.entries = f[AbsPath(out)].data.entries])
                    ELSE File(Archive(r, t))]]
    ELSE [ok |-> FALSE, fs |-> f]

\* tarfile.open(output_name, "w:gz"): the file is created or truncated.
TarOpen(f, out, r, t) ==
    IF Node(f, Parent(AbsPath(out))).kind = "dir" /\ Node(f, AbsPath(out)).kind # "dir"
    THEN [ok |-> TRUE, fs |-> [f EXCEPT ![AbsPath(out)] = File(Archive(r, t))]]
    ELSE [ok |-> FALSE, fs |-> f]

\* os.listdir(name), sorted
ListDir(f, name) ==
    SelectSeq(SortedNames, LAMBDA c : name \o <<c>> \in Paths /\ Exists(f, name \o <<c>>))

\* TarFile.add(name, arcname, recursive): the archive itself is skipped, a
\* file is added with its bytes, a directory is added and then (recursive)
\* its entries in sorted order, each under arcname/<entry>.  The members, in
\* order.
RECURSIVE TarFileAdd(_, _, _, _, _), TarFileAddEach(_, _, _, _, _)
TarFileAdd(f, name, arc, self, recursive) ==
    IF name = self
    THEN <<>>
    ELSE IF f[name].kind = "file"
    THEN << [name |-> arc, type |-> "file", data |-> f[name].data] >>
    ELSE << [name |-> arc, type |-> "dir", data |-> NoData] >>
         \o (IF recursive
             THEN TarFileAddEach(f, name, arc, self, ListDir(f, name))
             ELSE <<>>)

TarFileAddEach(f, name, arc, self, names) ==
    IF names = <<>>
    THEN <<>>
    ELSE TarFileAdd(f, name \o <<Head(names)>>, arc \o <<Head(names)>>, self, TRUE)
         \o TarFileAddEach(f, name, arc, self, Tail(names))

\* tar.add(project_dir) without arcname: the member names are the path
\* itself, less its leading "/".
TarAddWithoutArcname(f, self) == TarFileAdd(f, project_dir, Tail(project_dir), self, TRUE)

\* tar.add(project_dir, arcname="pipewire-go", recursive=False)
TarAddNotRecursive(f, self) == TarFileAdd(f, project_dir, arcname, self, FALSE)

\* tar.add(project_dir, arcname="pipewire-go") on the archive at path self
TarAdd(f, self) == TarFileAdd(f, project_dir, arcname, self, TRUE)

\* What writing through a run's archive handle does to the file at its path:
\* nothing once the path was unlinked under it (handle "detached"); on a file
\* another writer opened or overwrote since, the bytes of both mix.
ArchiveWrite(f, x, r, handle, es, closing) ==
    IF handle # "open" \/ ~Exists(f, x)
    THEN f
    ELSE IF IsArchive(f[x]) /\ f[x].data.run = r
    THEN [f EXCEPT ![x] = File([@.data EXCEPT !.entries = @ \o es,
                                               !.closed = closing])]
    ELSE [f EXCEPT ![x] = File(Garbled)]

\* os.path.getsize, in units of one archive record.
GetSize(d) == IF d.t = "tgz" THEN 1 + Len(d.entries) + (IF d.closed THEN 1 ELSE 0)
              ELSE IF d = Truncated THEN 0 ELSE 1

-----------------------------------------------------------------------------
(* The state                                                               *)

VARIABLES
    fs,           \* the filesystem: Paths -> Absent, Dir or File(bytes)
    pc,           \* per caller: the statement of create_package it is at
    output_name,  \* per caller: the output_name argument of its call
    idx,          \* per caller: the position of the running for loop
    ret,          \* per caller: the value its call returned, NoValue if none
    failedAt,     \* per caller: the statement that raised, "" if none
    log,          \* per caller: the filesystem operations of its call, in order
    tar,          \* per caller: its archive stream: none, open, detached, closed
    run,          \* per caller: the number of its call
    dirty,        \* per caller: its call found leftovers in the scratch area
    nruns,        \* the calls made so far
    now,          \* the clock, in the seconds of a file timestamp
    results,      \* what each call that returned left: output_name, tree, archive
    running,      \* the caller that took the last step, "" at the start
    preemptions,  \* the preemptions so far
    faults        \* whether I/O and printing can fail for reasons outside the model

vars == <<fs, pc, output_name, idx, ret, failedAt, log, tar, run, dirty, nruns, now, results,
          running, preemptions, faults>>

NoValue == <<>>

\* What an earlier run or a user may have left in the scratch area.
Leftovers ==
    { base_dir \o <<"stray.txt">>, project_dir,
      project_dir \o <<"stray.txt">>, project_dir \o <<"old">>,
      project_dir \o <<"old", "stray.txt">>,
      project_dir \o <<"go.mod">>, project_dir \o <<"spa">> }

LeftoverNode(q) ==
    IF q \in {project_dir, project_dir \o <<"old">>, project_dir \o <<"spa">>}
    THEN Dir ELSE File(Stale)

\* The filesystems a call may find: no scratch area, a file in its place, or
\* a scratch area holding any tree of leftovers; at the default output path
\* nothing or an old file.
InitialTrees ==
    { [q \in Paths |-> Absent],
      [q \in Paths |-> IF q = base_dir THEN File(Stale) ELSE Absent] }
    \cup
    { [q \in Paths |-> IF q = base_dir THEN Dir
                       ELSE IF q \in S THEN LeftoverNode(q) ELSE Absent] :
        S \in {T \in SUBSET Leftovers :
                 \A q \in T : Parent(q) = base_dir \/ Parent(q) \in T} }

\* No call has begun.
NoCalls ==
    /\ pc = [p \in Procs |-> "idle"]
    /\ output_name = [p \in Procs |-> DefaultOutput]
    /\ idx = [p \in Procs |-> 1]
    /\ ret = [p \in Procs |-> NoValue]
    /\ failedAt = [p \in Procs |-> ""]
    /\ log = [p \in Procs |-> <<>>]
    /\ tar = [p \in Procs |-> "none"]
    /\ run = [p \in Procs |-> 0]
    /\ dirty = [p \in Procs |-> FALSE]
    /\ nruns = 0
    /\ now = 0
    /\ results = <<>>
    /\ running = ""
    /\ preemptions = 0

\* The result of an operation the environment may fail (no space, no
\* permission, a closed stream): TRUE for carried out.
Outcomes == IF faults THEN BOOLEAN ELSE {TRUE}

Init ==
    /\ \E tree \in InitialTrees, old \in {Absent, File(Stale)} :
           fs = [tree EXCEPT ![AbsPath(DefaultOutput)] = old]
    /\ faults = TRUE
    /\ NoCalls

-----------------------------------------------------------------------------
(* Control flow                                                            *)

\* An exception that is swallowed: control goes on with the next statement.
AfterFailureContinues(next) == next

\* Where control goes when a statement raises: create_package has no
\* try/except, the exception leaves the function.
AfterFailure(next) == "failed"

\* The wipe left out.
AfterExistsNeverWipes(found) == "mkdir_base"

\* if base_dir.exists(): shutil.rmtree(base_dir)
AfterExists(found) == IF found THEN "rmtree" ELSE "mkdir_base"

\* return project_dir
ReturnValueIsStagingRoot(out) == project_dir

\* return output_name
ReturnValue(out) == out

Op(op, path) == [op |-> op, path |-> path]

\* A statement of caller p that acts on the filesystem: it is logged; when it
\* succeeds the filesystem becomes fsOk and control goes to next, when it
\* raises the filesystem becomes fsFail and the exception propagates.
IoStep(p, from, next, success, fsOk, fsFail, entry) ==
    /\ pc[p] = from
    /\ log' = [log EXCEPT ![p] = Append(@, entry)]
    /\ IF success
       THEN /\ fs' = fsOk
            /\ pc' = [pc EXCEPT ![p] = next]
            /\ UNCHANGED failedAt
       ELSE /\ fs' = fsFail
            /\ pc' = [pc EXCEPT ![p] = AfterFailure(next)]
            /\ failedAt' = [failedAt EXCEPT ![p] = from]

\* A print of caller p: it changes no state but may raise (standard output
\* closed, or unable to encode the text), and the exception propagates.
PrintStep(p, from, next) ==
    /\ pc[p] = from
    /\ \E ok \in Outcomes :
         IF ~ok
         THEN /\ pc' = [pc EXCEPT ![p] = AfterFailure(next)]
              /\ failedAt' = [failedAt EXCEPT ![p] = from]
         ELSE /\ pc' = [pc EXCEPT ![p] = next]
              /\ UNCHANGED failedAt
    /\ UNCHANGED <<fs, log>>

\* The archive streams an rmtree of the subtree at s unlinks the file of.
Detach(s) ==
    [q \in Procs |->
        IF tar[q] = "open" /\ IsPrefix(s, AbsPath(output_name[q])) THEN "detached" ELSE tar[q]]

\* The scheduler gives the next step to caller p; that preempts the caller
\* of the last step when it is still inside its call.
Schedule(p) ==
    LET preempt == running \in Procs \ {p} /\ pc[running] \notin {"idle", "done", "failed"}
    IN  /\ preempt => preemptions < MaxPreemptions
        /\ preemptions' = IF preempt THEN preemptions + 1 ELSE preemptions
        /\ running' = p
        /\ UNCHANGED faults

\* def create_package(output_name=...): the call begins.
Begin(p) ==
    /\ pc[p] = "idle"
    /\ nruns < MaxRuns
    /\ \E o \in OutputNames : output_name' = [output_name EXCEPT ![p] = o]
    /\ \E tick \in {0, 1} : now' = now + tick
    /\ nruns' = nruns + 1
    /\ run' = [run EXCEPT ![p] = nruns + 1]
    /\ dirty' = [dirty EXCEPT ![p] =
                    \E q \in Under(base_dir) \ {base_dir, project_dir} : Exists(fs, q)]
    /\ pc' = [pc EXCEPT ![p] = "exists"]
    /\ UNCHANGED <<fs, idx, ret, failedAt, log, tar, results>>
    /\ Schedule(p)

\* The caller of the sequential program.
MainCaller == "a"

\* A call by the one caller of a sequential program: its calls follow one
\* another.
Start(p) ==
    /\ p = MainCaller
    /\ Begin(p)

\* A call made while another call may be running; of two callers, the main
\* caller is the one that calls first.
StartConcurrent(p) ==
    /\ p = MainCaller \/ nruns > 0
    /\ Begin(p)

\* if base_dir.exists():
ExistsCheck(p) ==
    /\ pc[p] = "exists"
    /\ log' = [log EXCEPT ![p] =
                 Append(@, Op(IF Exists(fs, base_dir) THEN "exists:yes" ELSE "exists:no", base_dir))]
    /\ pc' = [pc EXCEPT ![p] = AfterExists(Exists(fs, base_dir))]
    /\ UNCHANGED <<fs, output_name, idx, ret, failedAt, tar, run, dirty, nruns, now, results>>
    /\ Schedule(p)

\* shutil.rmtree(base_dir): raises on a path that is no directory, and may
\* raise part way, having removed one subtree or nothing.
RmTreeStep(p) ==
    /\ \E ok \in Outcomes, s \in {q \in Under(base_dir) : q # base_dir /\ Exists(fs, q)} \cup {NoValue} :
         LET isDir == Node(fs, base_dir).kind = "dir"
             part  == IF s = NoValue \/ ~isDir THEN fs ELSE RmTreePartial(fs, s)
         IN  /\ IoStep(p, "rmtree", "mkdir_base", ok /\ isDir, RmTree(fs), part, Op("rmtree", base_dir))
             /\ tar' = IF ok /\ isDir THEN Detach(base_dir)
                       ELSE IF s = NoValue \/ ~isDir THEN tar ELSE Detach(s)
    /\ UNCHANGED <<output_name, idx, ret, run, dirty, nruns, now, results>>
    /\ Schedule(p)

\* base_dir.mkdir(parents=True)
MkdirBase(p) ==
    /\ \E ok \in Outcomes :
         LET r == Mkdir(fs, base_dir, TRUE, FALSE)
         IN  IoStep(p, "mkdir_base", "mkdir_project", ok /\ r.ok, r.fs, fs, Op("mkdir", base_dir))
    /\ UNCHANGED <<output_name, idx, ret, tar, run, dirty, nruns, now, results>>
    /\ Schedule(p)

\* project_dir.mkdir(parents=True)
MkdirProject(p) ==
    /\ \E ok \in Outcomes :
         LET r == Mkdir(fs, project_dir, TRUE, FALSE)
         IN  IoStep(p, "mkdir_project", "print_start", ok /\ r.ok, r.fs, fs, Op("mkdir", project_dir))
    /\ UNCHANGED <<output_name, idx, ret, tar, run, dirty, nruns, now, results>>
    /\ Schedule(p)

\* print("[*] Creating file structure...")
PrintStart(p) ==
    /\ PrintStep(p, "print_start", "file_mkdir")
    /\ idx' = [idx EXCEPT ![p] = 1]
    /\ UNCHANGED <<output_name, ret, tar, run, dirty, nruns, now, results>>
    /\ Schedule(p)

\* full_path = project_dir / filepath
full_path(k) == project_dir \o files[k].path

\* full_path.parent.mkdir(parents=True, exist_ok=True)
FileParentMkdir(p) ==
    /\ \E ok \in Outcomes :
         LET d == Parent(full_path(idx[p]))
             r == Mkdir(fs, d, TRUE, TRUE)
         IN  IoStep(p, "file_mkdir", "file_write", ok /\ r.ok, r.fs, fs, Op("mkdir", d))
    /\ UNCHANGED <<output_name, idx, ret, tar, run, dirty, nruns, now, results>>
    /\ Schedule(p)

\* full_path.write_text(content): a write that raises leaves the file as it
\* was, or created and cut short.
FileWrite(p) ==
    /\ \E ok \in Outcomes, cut \in BOOLEAN :
         LET r == WriteText(fs, full_path(idx[p]), files[idx[p]].content)
             t == WriteText(fs, full_path(idx[p]), "")
         IN  IoStep(p, "file_write", "file_print", ok /\ r.ok, r.fs,
                    IF cut /\ ~ok THEN t.fs ELSE fs, Op("write", full_path(idx[p])))
    /\ UNCHANGED <<output_name, idx, ret, tar, run, dirty, nruns, now, results>>
    /\ Schedule(p)

\* print(f"  (check mark) {filepath}"), and the for loop's next round
FilePrint(p) ==
    /\ PrintStep(p, "file_print",
                 IF idx[p] < Len(files) THEN "file_mkdir" ELSE "dir_mkdir")
    /\ idx' = [idx EXCEPT ![p] = IF idx[p] < Len(files) THEN idx[p] + 1 ELSE 1]
    /\ UNCHANGED <<output_name, ret, tar, run, dirty, nruns, now, results>>
    /\ Schedule(p)

\* (project_dir / dir_name).mkdir(parents=True, exist_ok=True)
DirMkdir(p) ==
    /\ \E ok \in Outcomes :
         LET d == project_dir \o dirs[idx[p]]
             r == Mkdir(fs, d, TRUE, TRUE)
         IN  IoStep(p, "dir_mkdir", "dir_print", ok /\ r.ok, r.fs, fs, Op("mkdir", d))
    /\ UNCHANGED <<output_name, idx, ret, tar, run, dirty, nruns, now, results>>
    /\ Schedule(p)

\* print(f"  (folder) {dir_name}/"), and the for loop's next round
DirPrint(p) ==
    /\ PrintStep(p, "dir_print",
                 IF idx[p] < Len(dirs) THEN "dir_mkdir" ELSE "print_archive")
    /\ idx' = [idx EXCEPT ![p] = IF idx[p] < Len(dirs) THEN idx[p] + 1 ELSE 1]
    /\ UNCHANGED <<output_name, ret, tar, run, dirty, nruns, now, results>>
    /\ Schedule(p)

\* print(f"\n[*] Creating archive: {output_name}")
PrintArchive(p) ==
    /\ PrintStep(p, "print_archive", "tar_open")
    /\ UNCHANGED <<output_name, idx, ret, tar, run, dirty, nruns, now, results>>
    /\ Schedule(p)

\* with tarfile.open(output_name, "w:gz") as tar:
TarOpenStep(p) ==
    /\ \E ok \in Outcomes :
         LET r == TarOpen(fs, output_name[p], run[p], now)
         IN  /\ IoStep(p, "tar_open", "tar_add", ok /\ r.ok, r.fs, fs,
                       Op("open", AbsPath(output_name[p])))
             /\ tar' = [tar EXCEPT ![p] = IF ok /\ r.ok THEN "open" ELSE @]
    /\ UNCHANGED <<output_name, idx, ret, run, dirty, nruns, now, results>>
    /\ Schedule(p)

\* tar.add(project_dir, arcname="pipewire-go"): raises when the staging root
\* is gone, and may raise before the first member is written or after the
\* last; the with block then closes the file without finishing the archive.
TarAddStep(p) ==
    /\ \E ok \in Outcomes :
         LET x       == AbsPath(output_name[p])
             there   == Exists(fs, project_dir)
             members == IF there THEN TarAdd(fs, x) ELSE <<>>
         IN  \E k \in {0, Len(members)} :
               /\ IoStep(p, "tar_add", "tar_close", ok /\ there,
                         ArchiveWrite(fs, x, run[p], tar[p], members, FALSE),
                         ArchiveWrite(fs, x, run[p], tar[p], SubSeq(members, 1, k), FALSE),
                         Op("add", project_dir))
               /\ tar' = [tar EXCEPT ![p] = IF ok /\ there THEN @ ELSE "closed"]
    /\ UNCHANGED <<output_name, idx, ret, run, dirty, nruns, now, results>>
    /\ Schedule(p)

\* the end of the with block: tar.close() finishes the archive and closes
\* the file
TarCloseStep(p) ==
    /\ \E ok \in Outcomes :
         LET x == AbsPath(output_name[p])
         IN  IoStep(p, "tar_close", "print_created", ok,
                    ArchiveWrite(fs, x, run[p], tar[p], <<>>, TRUE), fs, Op("close", x))
    /\ tar' = [tar EXCEPT ![p] = "closed"]
    /\ UNCHANGED <<output_name, idx, ret, run, dirty, nruns, now, results>>
    /\ Schedule(p)

\* print(f"(check mark) Archive created: {output_name}")
PrintCreated(p) ==
    /\ PrintStep(p, "print_created", "getsize")
    /\ UNCHANGED <<output_name, idx, ret, tar, run, dirty, nruns, now, results>>
    /\ Schedule(p)

\* size_mb = os.path.getsize(output_name) / (1024*1024): raises when there
\* is nothing at the path
GetSizeStep(p) ==
    /\ pc[p] = "getsize"
    /\ IF Exists(fs, AbsPath(output_name[p]))
       THEN /\ pc' = [pc EXCEPT ![p] = "print_size"]
            /\ UNCHANGED failedAt
       ELSE /\ pc' = [pc EXCEPT ![p] = AfterFailure("print_size")]
            /\ failedAt' = [failedAt EXCEPT ![p] = "getsize"]
    /\ UNCHANGED <<fs, output_name, idx, ret, log, tar, run, dirty, nruns, now, results>>
    /\ Schedule(p)

\* print(f"   Size: {size_mb:.2f} MB")
PrintSize(p) ==
    /\ PrintStep(p, "print_size", "return")
    /\ UNCHANGED <<output_name, idx, ret, tar, run, dirty, nruns, now, results>>
    /\ Schedule(p)

\* The scratch area as a tree.
Tree(f) == [q \in Under(base_dir) |-> f[q]]

\* return output_name.  `results` keeps what the call left behind.
Return(p) ==
    /\ pc[p] = "return"
    /\ pc' = [pc EXCEPT ![p] = "done"]
    /\ ret' = [ret EXCEPT ![p] = ReturnValue(output_name[p])]
    /\ results' = Append(results, [out     |-> output_name[p],
                                   tree    |-> Tree(fs),
                                   archive |-> Node(fs, AbsPath(output_name[p]))])
    /\ UNCHANGED <<fs, output_name, idx, failedAt, log, tar, run, dirty, nruns, now>>
    /\ Schedule(p)

\* The caller has the value or the exception of its call, and is ready for
\* another call.
Collect(p) ==
    /\ pc[p] \in {"done", "failed"}
    /\ pc' = [pc EXCEPT ![p] = "idle"]
    /\ output_name' = [output_name EXCEPT ![p] = DefaultOutput]
    /\ idx' = [idx EXCEPT ![p] = 1]
    /\ ret' = [ret EXCEPT ![p] = NoValue]
    /\ failedAt' = [failedAt EXCEPT ![p] = ""]
    /\ log' = [log EXCEPT ![p] = <<>>]
    /\ tar' = [tar EXCEPT ![p] = "none"]
    /\ run' = [run EXCEPT ![p] = 0]
    /\ dirty' = [dirty EXCEPT ![p] = FALSE]
    /\ UNCHANGED <<fs, nruns, now, results>>
    /\ Schedule(p)

\* One caller: the calls are made one after the other.
Next ==
    \E p \in Procs :
        \/ Start(p)
        \/ ExistsCheck(p)
        \/ RmTreeStep(p)
        \/ MkdirBase(p)
        \/ MkdirProject(p)
        \/ PrintStart(p)
        \/ FileParentMkdir(p)
        \/ FileWrite(p)
        \/ FilePrint(p)
        \/ DirMkdir(p)
        \/ DirPrint(p)
        \/ PrintArchive(p)
        \/ TarOpenStep(p)
        \/ TarAddStep(p)
        \/ TarCloseStep(p)
        \/ PrintCreated(p)
        \/ GetSizeStep(p)
        \/ PrintSize(p)
        \/ Return(p)
        \/ Collect(p)

Spec == Init /\ [][Next]_vars

\* Nothing keeps two callers from calling at the same time.
NextConcurrent ==
    \E p \in Procs :
        \/ StartConcurrent(p)
        \/ ExistsCheck(p)
        \/ RmTreeStep(p)
        \/ MkdirBase(p)
        \/ MkdirProject(p)
        \/ PrintStart(p)
        \/ FileParentMkdir(p)
        \/ FileWrite(p)
        \/ FilePrint(p)
        \/ DirMkdir(p)
        \/ DirPrint(p)
        \/ PrintArchive(p)
        \/ TarOpenStep(p)
        \/ TarAddStep(p)
        \/ TarCloseStep(p)
        \/ PrintCreated(p)
        \/ GetSizeStep(p)
        \/ PrintSize(p)
        \/ Return(p)
        \/ Collect(p)

\* Two callers start from an empty /tmp or from a scratch area full of
\* leftovers; the only failures are those the callers cause each other.
InitConcurrent ==
    /\ \E tree \in InitialTrees :
           /\ fs = tree
           /\ ~Exists(tree, base_dir) \/ \A q \in Leftovers : Exists(tree, q)
    /\ faults = FALSE
    /\ NoCalls

SpecConcurrent == InitConcurrent /\ [][NextConcurrent]_vars

-----------------------------------------------------------------------------
(* What the properties speak of                                            *)

\* The path the archive of caller p's call is written to.
OutPath(p) == AbsPath(output_name[p])

\* The staged path of every key of `files`.
ManifestPaths == {full_path(k) : k \in DOMAIN files}

\* The directories the specification declares, by name.
DeclaredDirs ==
    { <<"spa">>, <<"core">>, <<"client">>, <<"verbose">>, <<"examples">>,
      <<"cmd", "pw-tui">>, <<"cmd", "pw-gui">> }

\* The staging root, the declared directories and their parents.
ManifestDirs ==
    {project_dir} \cup UNION {{project_dir \o SubSeq(d, 1, n) : n \in 1..Len(d)} : d \in DeclaredDirs}

StagedFiles(f) == {q \in Under(project_dir) : f[q].kind = "file"}

StagedDirs(f) == {q \in Under(project_dir) : f[q].kind = "dir"}

\* The members of the archive at a node, as a sequence; none if no archive.
Members(n) == IF IsArchive(n) THEN n.data.entries ELSE <<>>

MemberNames(n, type) ==
    {Members(n)[k].name : k \in {j \in DOMAIN Members(n) : Members(n)[j].type = type}}

\* The number of members of the archive at a node with the given name.
Count(n, name) == Cardinality({k \in DOMAIN Members(n) : Members(n)[k].name = name})

\* Caller p's call returned and the caller has not yet moved on.
Done(p) == pc[p] = "done"

\* The statements of create_package that stage the tree.
StagingSteps ==
    {"rmtree", "mkdir_base", "mkdir_project", "file_mkdir", "file_write", "dir_mkdir"}

\* The statements of the Reporter.
PrintSteps ==
    {"print_start", "file_print", "dir_print", "print_archive", "print_created", "print_size"}

\* Every manifest file other than the one at path x is staged with its
\* content, and every declared directory is staged.
Populated(f, x) ==
    /\ \A k \in DOMAIN files :
         full_path(k) # x => f[full_path(k)] = File(Text(files[k].content))
    /\ \A d \in ManifestDirs : f[d] = Dir

-----------------------------------------------------------------------------
(* C1: no leakage                                                          *)

-----------------------------------------------------------------------------
(* C2: completeness                                                        *)

\* The archive at node n has exactly one member for manifest file k, a file
\* with the manifest's content.
HasEntry(n, k) ==
    /\ Count(n, arcname \o files[k].path) = 1
    /\ \A j \in DOMAIN Members(n) :
         Members(n)[j].name = arcname \o files[k].path =>
            /\ Members(n)[j].type = "file"
            /\ Members(n)[j].data = Text(files[k].content)

-----------------------------------------------------------------------------
(* C3: directory presence                                                  *)

\* C3: after a successful run every declared directory is a directory of the
\* staging root and a directory member of the archive; and the mkdir of a
\* parent or of a declared directory is never refused by what is already
\* there (the staging root before each file, cmd before cmd/pw-gui).
C3_DeclaredDirsPresent ==
    \A p \in Procs :
        /\ Done(p) =>
             \A d \in DeclaredDirs :
                /\ fs[project_dir \o d] = Dir
                /\ arcname \o d \in MemberNames(fs[OutPath(p)], "dir")
                /\ Count(fs[OutPath(p)], arcname \o d) = 1
        /\ pc[p] = "file_mkdir" =>
             /\ Exists(fs, Parent(full_path(idx[p])))
             /\ Mkdir(fs, Parent(full_path(idx[p])), TRUE, TRUE) = [ok |-> TRUE, fs |-> fs]
        /\ pc[p] = "dir_mkdir" => Mkdir(fs, project_dir \o dirs[idx[p]], TRUE, TRUE).ok

\* A call has returned, and the directory created under the already
\* existing cmd is staged.
C3_Witness ==
    \E p \in Procs : Done(p) /\ fs[project_dir \o <<"cmd", "pw-gui">>] = Dir
                             /\ fs[project_dir \o <<"cmd", "pw-tui">>] = Dir

-----------------------------------------------------------------------------
(* C4: root normalization                                                  *)

\* C4: every member of every archive the program writes, at every moment,
\* is named pipewire-go or pipewire-go/..., and never by the staging root's
\* own path (with or without its leading /).
C4_RootNormalized ==
    \A q \in Paths : IsArchive(fs[q]) =>
        \A k \in DOMAIN Members(fs[q]) :
            /\ Head(Members(fs[q])[k].name) = "pipewire-go"
            /\ ~IsPrefix(project_dir, Members(fs[q])[k].name)
            /\ ~IsPrefix(Tail(project_dir), Members(fs[q])[k].name)

\* An archive holds a member two levels below the root.
C4_Witness ==
    \E q \in Paths : /\ IsArchive(fs[q])
                     /\ \E k \in DOMAIN Members(fs[q]) : Len(Members(fs[q])[k].name) = 3

-----------------------------------------------------------------------------
(* C5: idempotence                                                         *)

\* The bytes of a file: an archive's are its gzip timestamp and its members.
Bytes(d) == IF d.t = "tgz" THEN [t |-> "tgz", mtime |-> d.mtime, entries |-> d.entries, closed |-> d.closed]
            ELSE d

\* The bytes of a file, an archive's timestamp left out.
BytesLessTime(d) == IF d.t = "tgz" THEN [t |-> "tgz", entries |-> d.entries, closed |-> d.closed]
                    ELSE d

TreeBytes(tree) ==
    [q \in DOMAIN tree |-> IF tree[q].kind = "file" THEN File(Bytes(tree[q].data)) ELSE tree[q]]

TreeBytesLessTime(tree) ==
    [q \in DOMAIN tree |-> IF tree[q].kind = "file" THEN File(BytesLessTime(tree[q].data)) ELSE tree[q]]

\* C5 as stated: two runs that returned, with the same output name, left
\* identical staging trees (paths, directories, bytes) and archives with the
\* same members (names, kinds, contents, order).
C5_Idempotent ==
    \A m, n \in DOMAIN results :
        m < n /\ results[m].out = results[n].out =>
            /\ TreeBytes(results[m].tree) = TreeBytes(results[n].tree)
            /\ Members(results[m].archive) = Members(results[n].archive)

\* C5 amended: the same, except that an archive staged under the staging
\* root (output_name lies there) may differ from run to run in the
\* timestamp it embeds.
C5_IdempotentButTimestamps ==
    \A m, n \in DOMAIN results :
        m < n /\ results[m].out = results[n].out =>
            /\ TreeBytesLessTime(results[m].tree) = TreeBytesLessTime(results[n].tree)
            /\ Members(results[m].archive) = Members(results[n].archive)
            /\ ~IsPrefix(project_dir, AbsPath(results[m].out)) =>
                  TreeBytes(results[m].tree) = TreeBytes(results[n].tree)

\* Two runs with the same output name have returned.
C5_Witness ==
    \E m, n \in DOMAIN results : m < n /\ results[m].out = results[n].out

-----------------------------------------------------------------------------
(* C6: a failed staging step aborts the run                                *)

\* The content the manifest gives the file staged at path q.
ContentAt(q) == files[CHOOSE k \in DOMAIN files : full_path(k) = q].content

\* C6: when a staging step of a call raised, the call is over at that step:
\* the step is the last operation it made, it never opened an archive and
\* left none of its own at the output path, it returned nothing, and what it
\* staged before the step is still there.
C6_StagingFailureAborts ==
    \A p \in Procs : failedAt[p] \in StagingSteps =>
        /\ pc[p] = "failed"
        /\ ret[p] = NoValue
        /\ tar[p] = "none"
        /\ \A k \in DOMAIN log[p] : log[p][k].op \notin {"open", "add", "close"}
        /\ log[p][Len(log[p])].op =
              (CASE failedAt[p] = "rmtree" -> "rmtree"
                 [] failedAt[p] = "file_write" -> "write"
                 [] OTHER -> "mkdir")
        /\ ~(IsArchive(fs[OutPath(p)]) /\ fs[OutPath(p)].data.run = run[p])
        /\ \A k \in 1..(Len(log[p]) - 1) :
              /\ log[p][k].op = "mkdir" => fs[log[p][k].path] = Dir
              /\ log[p][k].op = "write" => fs[log[p][k].path] = File(Text(ContentAt(log[p][k].path)))

\* The write of the third file raised; two files were staged before it.
C6_Witness ==
    \E p \in Procs : failedAt[p] = "file_write" /\ idx[p] = 3 /\ pc[p] = "failed"

-----------------------------------------------------------------------------
(* C7: exclusive ownership of the staging root                             *)

\* C7: the tree a run has populated is the tree it archives: when a run is
\* about to open its archive, every manifest file and declared directory it
\* staged is in place, no other run having wiped or rewritten them.
C7_StagingRootExclusive ==
    \A p \in Procs : pc[p] \in {"print_archive", "tar_open"} => Populated(fs, NoValue)

-----------------------------------------------------------------------------
(* C8: the return contract                                                 *)

\* C8: a call that returned gave back its output_name, and the file there
\* is a finished archive of size > 0; the stream was closed when the size
\* was asked for and ever after; a call that has not returned has no value.
C8_ReturnContract ==
    \A p \in Procs :
        /\ Done(p) =>
             /\ ret[p] = output_name[p]
             /\ IsArchive(fs[OutPath(p)])
             /\ GetSize(fs[OutPath(p)].data) > 0
        /\ pc[p] \in {"getsize", "print_size", "return", "done"} =>
             /\ tar[p] = "closed"
             /\ IsArchive(fs[OutPath(p)]) /\ fs[OutPath(p)].data.closed
        /\ ~Done(p) => ret[p] = NoValue

\* A call has returned a value.
C8_Witness == \E p \in Procs : Done(p) /\ ret[p] # NoValue

-----------------------------------------------------------------------------
(* C9: the order of the steps                                              *)

\* The filesystem operations of a whole call, in the order the claim gives
\* them: the check, the wipe if there is something to wipe, the two roots,
\* per manifest file its parent and its write, the declared directories,
\* then the archive.
ExpectedOrder(found, x) ==
    << Op(IF found THEN "exists:yes" ELSE "exists:no", base_dir) >>
    \o (IF found THEN << Op("rmtree", base_dir) >> ELSE <<>>)
    \o << Op("mkdir", base_dir), Op("mkdir", project_dir) >>
    \o [n \in 1..(2 * Len(files)) |->
          IF n % 2 = 1 THEN Op("mkdir", Parent(full_path((n + 1) \div 2)))
                       ELSE Op("write", full_path(n \div 2))]
    \o [n \in 1..Len(dirs) |-> Op("mkdir", project_dir \o dirs[n])]
    \o << Op("open", x), Op("add", project_dir), Op("close", x) >>

-----------------------------------------------------------------------------
(* C10: the Reporter                                                       *)

\* C10: no outcome of a reporting step changes what the run does: a call
\* never ends because a print raised.
C10_ReporterNeverAborts ==
    \A p \in Procs : failedAt[p] \notin PrintSteps

====
